---- MODULE Spec2Model ----
(***************************************************************************)
(* Activation & Entitlement Engine of smartcut-pro-landing.                *)
(*                                                                         *)
(* The store (lib/db.ts, database/schema.sql) is two tables: activations   *)
(* and refunded_licenses.  Every request handler (activate, verify,        *)
(* revoke) is an async function: each `await` (the Payhip fetch, every     *)
(* query / queryOne / execute) is a suspension point, so one action of     *)
(* the model runs a handler from one await to the next.  No handler opens  *)
(* a transaction: every SQL statement commits on its own.                  *)
(*                                                                         *)
(* Strings that the code parses (license keys) are sequences of one-       *)
(* character strings, so that trim / toUpperCase / the regular             *)
(* expressions / split are computed as the code computes them.             *)
(***************************************************************************)
EXTENDS Integers, Sequences, FiniteSets, TLC

\* ------------------------------------------------------------------ bounds
NumProcs == 2          \* request slots that run concurrently under Spec
MaxRequests == 3       \* requests started in one behaviour of Spec
MaxRequestsSeq == 4    \* requests started in one behaviour of SpecSeq

NoValue == "undefined" \* JS undefined / null / unset, where a string is expected
None == <<>>           \* the same where a number or a record is expected
Some(v) == << v >>

\* ------------------------------------------------------------- characters
LowerChars == <<"a","b","c","d","e","f","g","h","i","j","k","l","m",
                "n","o","p","q","r","s","t","u","v","w","x","y","z">>
UpperChars == <<"A","B","C","D","E","F","G","H","I","J","K","L","M",
                "N","O","P","Q","R","S","T","U","V","W","X","Y","Z">>
DigitChars == {"0","1","2","3","4","5","6","7","8","9"}

Range(s) == { s[i] : i \in DOMAIN s }

\* String.prototype.toUpperCase, one character
UpperChar(c) ==
  IF \E i \in DOMAIN LowerChars : LowerChars[i] = c
  THEN UpperChars[CHOOSE i \in DOMAIN LowerChars : LowerChars[i] = c]
  ELSE c

\* String.prototype.toUpperCase
ToUpperCase(s) == [ i \in DOMAIN s |-> UpperChar(s[i]) ]

\* String.prototype.trim: drops leading and trailing blanks
RECURSIVE TrimLeft(_)
TrimLeft(s) == IF s # <<>> /\ Head(s) = " " THEN TrimLeft(Tail(s)) ELSE s
RECURSIVE TrimRight(_)
TrimRight(s) ==
  IF s # <<>> /\ s[Len(s)] = " " THEN TrimRight(SubSeq(s, 1, Len(s) - 1)) ELSE s
Trim(s) == TrimRight(TrimLeft(s))

\* the character class [A-Z0-9-] under the /i flag
KeyChar(c) == \/ c \in Range(UpperChars)
              \/ c \in Range(LowerChars)
              \/ c \in DigitChars
              \/ c = "-"

MinKeyLen == 10
MaxKeyLen == 50

\* lib/utils/license.ts isValidLicenseKeyFormat: /^[A-Z0-9-]{10,}$/i
isValidLicenseKeyFormat(licenseKey) ==
  /\ Len(licenseKey) >= MinKeyLen
  /\ \A i \in DOMAIN licenseKey : KeyChar(licenseKey[i])

\* verify.ts keyPattern: /^[A-Z0-9-]+$/i
keyPattern(cleanKey) ==
  /\ Len(cleanKey) >= 1
  /\ \A i \in DOMAIN cleanKey : KeyChar(cleanKey[i])

\* ------------------------------------------------------------ configuration
\* src/config/products.ts
PRODUCTS == { "photobatchpro", "smartcut-pro", "vehiclevault-pro",
              "cutting-optimization-pro" }
DEFAULT_PRODUCT_ID == "photobatchpro"

DefaultMaxActivations == 3
DefaultGracePeriodDays == 30

\* a number of JavaScript as the handlers use it: Some(n), or NaN
NaN == <<>>

Digits == <<"0","1","2","3","4","5","6","7","8","9">>
DigitValue(c) == (CHOOSE i \in DOMAIN Digits : Digits[i] = c) - 1

\* the decimal numeral of a natural number, as an environment variable holds it
RECURSIVE Numeral(_)
Numeral(n) ==
  IF n < 10 THEN << Digits[n + 1] >>
  ELSE Numeral(n \div 10) \o << Digits[(n % 10) + 1] >>

\* the value of the longest prefix of s made of digits, read after `read`
RECURSIVE LeadingDigits(_, _)
LeadingDigits(s, read) ==
  IF s # <<>> /\ Head(s) \in DigitChars
  THEN LeadingDigits(Tail(s), 10 * read + DigitValue(Head(s)))
  ELSE read

\* parseInt(s, 10) on a string without sign or leading blanks: the number its
\* leading digits spell, NaN when it does not begin with a digit
parseInt(s) ==
  IF s # <<>> /\ Head(s) \in DigitChars THEN Some(LeadingDigits(s, 0)) ELSE NaN

\* (variant: the fallback is one more than the documented default)
EnvIntAboveDefault(value, default) ==
  IF value = <<>> THEN Some(default + 1) ELSE parseInt(value)

\* parseInt(process.env.X || '<default>', 10): an unset and an empty variable
\* both give the default
EnvInt(value, default) ==
  IF value = <<>> THEN Some(default) ELSE parseInt(value)

\* n >= m of JavaScript: false whenever m is NaN
GreaterOrEqual(n, m) == m # NaN /\ n >= m[1]

\* (variant: n > m)
GreaterThan(n, m) == m # NaN /\ n > m[1]


\* ------------------------------------------------------------------ inputs
\* license keys as they arrive in req.body.licenseKey
KeyUpper1 == <<"A","B","-","1","2","3","-","P","R","O">>
KeyLower1 == <<"a","b","-","1","2","3","-","p","r","o">>
KeyShort  == <<"A","B","-","1">>

\* what the clients and the administrator send under Spec and under SpecSeq
\* (well-formed requests, and the malformed ones listed apart)
ConcInputs ==
  [ keys |-> { KeyUpper1, KeyLower1 }, machines |-> { "A", "B" },
    reasons |-> { "REFUND" },
    badClient |-> {}, badAdmin |-> {} ]
SeqInputs ==
  [ keys |-> { KeyUpper1, KeyLower1 }, machines |-> { "A", "B", "C", "D" },
    reasons |-> { "REFUND", "CHARGEBACK" },
    badClient |-> { << KeyShort, NoValue, "A" >>, << KeyUpper1, "nope", "A" >>,
                    << KeyUpper1, NoValue, NoValue >> },
    badAdmin |-> { << KeyUpper1, "REFUND", "guess" >>,
                   << KeyUpper1, NoValue, "admin-secret" >> } ]

\* MAX_ACTIVATIONS_PER_LICENSE as configured under Spec (unset under SpecSeq)
ConcMaxActivations == 1

Ops == { "activate_v1", "activate_cors", "verify", "revoke" }
ActivateOps == { "activate_v1", "activate_cors" }

Procs == 1 .. NumProcs

\* ------------------------------------------------------------------- state
VARIABLES
  env,          \* process.env
  activations,  \* table activations: a set of rows
  refunded,     \* table refunded_licenses: a set of rows
  proc,         \* per request slot: the handler's position, locals and response
  clock,        \* CURRENT_TIMESTAMP / Date.now(), in days; one request
                \* arrives per day, so it also numbers the requests
  snap,         \* both tables as they were when the running request of
                \* SpecSeq was received (history, read by no handler)
  calc          \* one evaluation of a function of lib/utils/license.ts:
                \* its arguments, how far it got and its result

vars == << env, activations, refunded, proc, clock, snap, calc >>

NoResponse == [ status |-> 0, success |-> FALSE, error |-> NoValue,
                count |-> None, max |-> None,
                activations_cancelled |-> None,
                activation_token |-> None, offline_expiry |-> None,
                license_type |-> None ]

\* a missing licenseKey is the empty string: `!licenseKey` rejects both
NoBody == [ licenseKey |-> <<>>, productId |-> NoValue,
            machineId |-> NoValue, reason |-> NoValue, secret |-> NoValue,
            activation_token |-> None ]

Idle == [ pc |-> "idle", op |-> NoValue, rid |-> 0, body |-> NoBody,
          cleanKey |-> <<>>, productIdToUse |-> NoValue,
          activeActivations |-> {}, existingActivation |-> None,
          res |-> NoResponse,
          revokedAtStart |-> FALSE,   \* history: a refunded_licenses row for
                                      \* the trimmed key existed on arrival
          infra |-> FALSE,            \* history: a call on Payhip or on the
                                      \* store threw during this request
          oracle |-> NoValue,         \* history: what the Payhip call gave
          oracleCalls |-> 0,          \* history: calls on Payhip so far
          storeCalls |-> 0 ]          \* history: calls on the store so far

\* no evaluation is under way
NoCalc == [ fn |-> "none", stage |-> "idle" ]

\* the awaited call of a waiting handler returns or throws: pc = "oracle"
\* waits for Payhip, every other waiting pc for the store
Called(me) ==
  [ me EXCEPT !.oracleCalls = IF me.pc = "oracle" THEN @ + 1 ELSE @,
              !.storeCalls = IF me.pc = "oracle" THEN @ ELSE @ + 1 ]

\* res.status(code).json({...}): the handler returns
Responded(me, r) ==
  [ me EXCEPT !.pc = "done", !.res = r,
              !.activeActivations = {}, !.existingActivation = None ]

Respond(p, r) == proc' = [ proc EXCEPT ![p] = Responded(Called(proc[p]), r) ]

Failure(status, error) ==
  [ NoResponse EXCEPT !.status = status, !.error = error ]

\* the catch block of a handler: 500
ServerError == Failure(500, "SERVER_ERROR")

\* a call on Payhip or on the store throws (connection lost, timeout, ...)
\* and the catch block answers
Thrown(me) == [ Responded(me, ServerError) EXCEPT !.infra = TRUE ]

Throw(p) == proc' = [ proc EXCEPT ![p] = Thrown(Called(proc[p])) ]

\* ------------------------------------------------------------------ the store
\* (variant: the WHERE clause also asks for a customer email, which the
\* revoke handler stores as NULL when the administrator sends none)
SelectRefundedWithEmail(table, key) ==
  { r \in table : r.license_key = key /\ r.email # NoValue }

\* SELECT * FROM refunded_licenses WHERE license_key = $1
SelectRefunded(table, key) == { r \in table : r.license_key = key }

\* SELECT * FROM activations WHERE license_key = $1 AND status = 'active'
SelectActive(table, key) ==
  { a \in table : a.license_key = key /\ a.status = "active" }

\* SELECT * FROM activations WHERE license_key = $1 AND machine_id = $2
SelectActivation(table, key, machineId) ==
  { a \in table : a.license_key = key /\ a.machine_id = machineId }

\* (variant: the table has no such constraint)
NoUniqueMachineLicense(table, row) == TRUE

\* CONSTRAINT unique_machine_license UNIQUE (machine_id, license_key)
UniqueMachineLicense(table, row) ==
  \A a \in table :
    ~ (a.machine_id = row.machine_id /\ a.license_key = row.license_key)

\* refunded_licenses.license_key ... UNIQUE
UniqueRefundedKey(table, row) ==
  \A r \in table : r.license_key # row.license_key

\* lib/utils/license.ts calculateOfflineExpiry
calculateOfflineExpiry(now, days) == now + days

\* the row an INSERT INTO activations creates (id, status and activated_at by
\* DEFAULT; gen_random_uuid() is the number of the inserting request)
NewActivation(id, key, productId, machineId, now, expiry) ==
  [ id |-> id,
    license_key |-> key, product_id |-> productId, machine_id |-> machineId,
    status |-> "active", activated_at |-> now, last_verified_at |-> None,
    offline_expiry |-> expiry ]

\* UPDATE activations SET last_verified_at = CURRENT_TIMESTAMP,
\*   offline_expiry = CURRENT_TIMESTAMP + INTERVAL 'n days', status = 'active'
\*   WHERE id = $1
UpdateActivation(table, id, now, days) ==
  { IF a.id = id
    THEN [ a EXCEPT !.last_verified_at = Some(now),
                    !.offline_expiry = now + days,
                    !.status = "active" ]
    ELSE a : a \in table }

\* (variant: the statement is DELETE FROM activations WHERE license_key = $1
\* AND status = 'active')
SweepDeletes(table, key, now) ==
  { a \in table : ~ (a.license_key = key /\ a.status = "active") }

\* (variant: the WHERE clause lacks license_key = $1)
SweepEveryKey(table, key, now) ==
  { IF a.status = "active"
    THEN [ a EXCEPT !.status = "revoked", !.last_verified_at = Some(now) ]
    ELSE a : a \in table }

\* UPDATE activations SET status = 'revoked', last_verified_at = CURRENT_TIMESTAMP
\*   WHERE license_key = $1 AND status = 'active'
SweepActivations(table, key, now) ==
  { IF a.license_key = key /\ a.status = "active"
    THEN [ a EXCEPT !.status = "revoked", !.last_verified_at = Some(now) ]
    ELSE a : a \in table }

\* result.count of that UPDATE
SweepCount(table, key) == Cardinality(SelectActive(table, key))

\* the row an INSERT INTO refunded_licenses creates
NewRefund(key, email, reason, now) ==
  [ license_key |-> key, email |-> email, reason |-> reason,
    refunded_at |-> now ]

\* ------------------------------------------------------- request arrival
\* A request arrives in slot p: the handler runs up to its first await.
Arrive(p, op, body) ==
  [ Idle EXCEPT !.op = op, !.rid = clock + 1, !.body = body,
                !.revokedAtStart =
                   \E r \in refunded : r.license_key = Trim(body.licenseKey) ]

\* activate.ts, first handler (lines 32-266), up to `await fetch`
ActivateV1Start(p, body) ==
  LET cleanKey == ToUpperCase(Trim(body.licenseKey))
      productIdToUse == IF body.productId = NoValue THEN DEFAULT_PRODUCT_ID
                        ELSE body.productId
      me == Arrive(p, "activate_v1", body)
      reject(r) == proc' = [ proc EXCEPT ![p] = [ me EXCEPT !.pc = "done", !.res = r ] ]
  IN  IF body.licenseKey = <<>>
        THEN reject(Failure(400, "INPUT_INVALID"))
      ELSE IF body.machineId = NoValue
        THEN reject(Failure(400, "INPUT_INVALID"))
      ELSE IF ~ isValidLicenseKeyFormat(cleanKey)
        THEN reject(Failure(400, "INPUT_INVALID"))
      ELSE IF productIdToUse \notin PRODUCTS
        THEN reject(Failure(400, "INPUT_INVALID"))
      ELSE IF env.PAYHIP_API_KEY = NoValue
        THEN reject(Failure(500, "SERVER_CONFIG"))
      ELSE proc' = [ proc EXCEPT ![p] =
                       [ me EXCEPT !.pc = "oracle", !.cleanKey = cleanKey,
                                   !.productIdToUse = productIdToUse ] ]

\* activate.ts, second handler (lines 299-547), up to `await fetch`
ActivateCorsStart(p, body) ==
  LET cleanKey == Trim(body.licenseKey)
      productIdToUse == IF body.productId = NoValue THEN DEFAULT_PRODUCT_ID
                        ELSE body.productId
      me == Arrive(p, "activate_cors", body)
      reject(r) == proc' = [ proc EXCEPT ![p] = [ me EXCEPT !.pc = "done", !.res = r ] ]
  IN  IF body.licenseKey = <<>>
        THEN reject(Failure(400, "INPUT_INVALID"))
      ELSE IF body.machineId = NoValue
        THEN reject(Failure(400, "INPUT_INVALID"))
      ELSE IF Len(cleanKey) > MaxKeyLen
        THEN reject(Failure(400, "INPUT_INVALID"))
      ELSE IF ~ isValidLicenseKeyFormat(cleanKey)
        THEN reject(Failure(400, "INPUT_INVALID"))
      ELSE IF productIdToUse \notin PRODUCTS
        THEN reject(Failure(400, "INPUT_INVALID"))
      ELSE IF env.PAYHIP_API_KEY = NoValue
        THEN reject(Failure(500, "SERVER_CONFIG"))
      ELSE proc' = [ proc EXCEPT ![p] =
                       [ me EXCEPT !.pc = "oracle", !.cleanKey = cleanKey,
                                   !.productIdToUse = productIdToUse ] ]

\* verify.ts, multi-product handler (lines 213-374), up to `await fetch`
VerifyStart(p, body) ==
  LET cleanKey == Trim(body.licenseKey)
      productIdToUse == IF body.productId = NoValue THEN DEFAULT_PRODUCT_ID
                        ELSE body.productId
      me == Arrive(p, "verify", body)
      reject(r) == proc' = [ proc EXCEPT ![p] = [ me EXCEPT !.pc = "done", !.res = r ] ]
  IN  IF body.licenseKey = <<>>
        THEN reject(Failure(400, "INPUT_INVALID"))
      ELSE IF Len(cleanKey) > MaxKeyLen
        THEN reject(Failure(400, "INPUT_INVALID"))
      ELSE IF productIdToUse \notin PRODUCTS
        THEN reject(Failure(400, "INPUT_INVALID"))
      ELSE IF ~ keyPattern(cleanKey)
        THEN reject(Failure(400, "INPUT_INVALID"))
      ELSE IF env.PAYHIP_API_KEY = NoValue
        THEN reject(Failure(500, "SERVER_CONFIG"))
      ELSE proc' = [ proc EXCEPT ![p] =
                       [ me EXCEPT !.pc = "oracle", !.cleanKey = cleanKey,
                                   !.productIdToUse = productIdToUse ] ]

\* (variant: the input is validated before the secret is compared)
RevokeStartValidatesFirst(p, body) ==
  LET requiredSecret == IF env.ADMIN_SECRET # NoValue THEN env.ADMIN_SECRET
                        ELSE env.JWT_SECRET
      cleanKey == ToUpperCase(Trim(body.licenseKey))
      me == Arrive(p, "revoke", body)
      reject(r) == proc' = [ proc EXCEPT ![p] = [ me EXCEPT !.pc = "done", !.res = r ] ]
  IN  IF body.licenseKey = <<>>
        THEN reject(Failure(400, "INPUT_INVALID"))
      ELSE IF body.reason = NoValue
        THEN reject(Failure(400, "INPUT_INVALID"))
      ELSE IF body.secret = NoValue \/ body.secret # requiredSecret
        THEN reject(Failure(401, "UNAUTHORIZED"))
      ELSE proc' = [ proc EXCEPT ![p] =
                       [ me EXCEPT !.pc = "rev_check", !.cleanKey = cleanKey ] ]

\* revoke handler, up to its first `await query`
RevokeStart(p, body) ==
  LET requiredSecret == IF env.ADMIN_SECRET # NoValue THEN env.ADMIN_SECRET
                        ELSE env.JWT_SECRET
      cleanKey == ToUpperCase(Trim(body.licenseKey))
      me == Arrive(p, "revoke", body)
      reject(r) == proc' = [ proc EXCEPT ![p] = [ me EXCEPT !.pc = "done", !.res = r ] ]
  IN  IF body.secret = NoValue \/ body.secret # requiredSecret
        THEN reject(Failure(401, "UNAUTHORIZED"))
      ELSE IF body.licenseKey = <<>>
        THEN reject(Failure(400, "INPUT_INVALID"))
      ELSE IF body.reason = NoValue
        THEN reject(Failure(400, "INPUT_INVALID"))
      ELSE proc' = [ proc EXCEPT ![p] =
                       [ me EXCEPT !.pc = "rev_check", !.cleanKey = cleanKey ] ]

\* -------------------------------------------------------------- key resolver
\* license types, as the strings the resolver returns
PERSONAL == <<"P","E","R","S","O","N","A","L">>
PRO == <<"P","R","O">>
ENTERPRISE == <<"E","N","T","E","R","P","R","I","S","E">>
LIFETIME == <<"L","I","F","E","T","I","M","E">>
TRIAL == <<"T","R","I","A","L">>

\* lib/utils/license.ts LICENSE_CONFIG[productId]: the types configured for a
\* product, None for a product without an entry
LICENSE_CONFIG(productId) ==
  CASE productId = "photobatchpro" -> Some({ PERSONAL, PRO, ENTERPRISE })
    [] productId = "vehiclevaultpro" -> Some({ PERSONAL, PRO, LIFETIME })
    [] OTHER -> None

\* String.prototype.split('-')
RECURSIVE Split(_)
Split(s) ==
  IF \E i \in DOMAIN s : s[i] = "-"
  THEN LET i == CHOOSE i \in DOMAIN s :
                  s[i] = "-" /\ \A j \in 1 .. (i - 1) : s[j] # "-"
       IN  << SubSeq(s, 1, i - 1) >> \o Split(SubSeq(s, i + 1, Len(s)))
  ELSE << s >>

\* String.prototype.startsWith
StartsWith(s, prefix) ==
  Len(s) >= Len(prefix) /\ SubSeq(s, 1, Len(prefix)) = prefix

\* (variant: the final segment is looked up as it is written)
getLicenseTypeFromKeyCaseSensitive(licenseKey, productId) ==
  LET parts == Split(licenseKey)
      type == parts[Len(parts)]
      config == LICENSE_CONFIG(productId)
  IN  IF Len(parts) < 3
        THEN IF StartsWith(licenseKey, TRIAL \o << "-" >>) THEN TRIAL ELSE PERSONAL
      ELSE IF config # None /\ type \in config[1] THEN type
      ELSE PERSONAL

\* lib/utils/license.ts getLicenseTypeFromKey
getLicenseTypeFromKey(licenseKey, productId) ==
  LET parts == Split(licenseKey)
      type == ToUpperCase(parts[Len(parts)])
      config == LICENSE_CONFIG(productId)
  IN  IF Len(parts) < 3
        THEN IF StartsWith(licenseKey, TRIAL \o << "-" >>) THEN TRIAL ELSE PERSONAL
      ELSE IF config # None /\ type \in config[1] THEN type
      ELSE PERSONAL

\* lib/utils/license.ts getLicenseInfoFromKey (the feature list left out)
getLicenseInfoFromKey(licenseKey, productId) ==
  LET licenseType == getLicenseTypeFromKey(licenseKey, productId)
      config == LICENSE_CONFIG(productId)
  IN  IF config = None \/ licenseType = TRIAL
        THEN [ license_type |-> TRIAL, expiry_date |-> None,
               product_id |-> productId ]
      ELSE [ license_type |-> licenseType, expiry_date |-> None,
             product_id |-> productId ]

\* ------------------------------------------------------------ token issuance
\* lib/utils/license.ts generateActivationToken; the caller has checked that
\* the secret is set.  Times are unix seconds, the clock is in days.
SecondsPerDay == 86400

\* seconds the clock may advance between two consecutive reads of Date.now()
MaxClockTick == 1
ClockTicks == 0 .. MaxClockTick

\* jsonwebtoken: the HMAC of header and payload under a secret; two signatures
\* are equal exactly when algorithm, payload and secret are
Sign(alg, payload, secret) == << alg, payload, secret >>

\* (variant: the payload carries the upper-cased key)
generateActivationTokenUpper(licenseKey, machineId, productId, expiryDays, secret, now1, now2) ==
  LET payload == [ license_key |-> Some(ToUpperCase(licenseKey)),
                   machine_id |-> Some(machineId),
                   product_id |-> Some(productId),
                   expiry |-> Some(now1 + expiryDays * SecondsPerDay),
                   iat |-> Some(now2),
                   exp |-> None ]
  IN  [ alg |-> "HS256", payload |-> payload,
        signature |-> Sign("HS256", payload, secret) ]

\* A token is its header algorithm, its payload and its signature.  A payload
\* field is Some(value), or None when the claim is absent; jwt.sign without
\* the expiresIn option writes no `exp` claim.  The payload is built from two
\* reads of the clock: now1 = Math.floor(Date.now() / 1000) for expiry, now2
\* the same expression evaluated next, for iat.
generateActivationToken(licenseKey, machineId, productId, expiryDays, secret, now1, now2) ==
  LET payload == [ license_key |-> Some(licenseKey),
                   machine_id |-> Some(machineId),
                   product_id |-> Some(productId),
                   expiry |-> Some(now1 + expiryDays * SecondsPerDay),
                   iat |-> Some(now2),
                   exp |-> None ]
  IN  [ alg |-> "HS256", payload |-> payload,
        signature |-> Sign("HS256", payload, secret) ]

TokenResult(valid, payload, error) ==
  [ valid |-> valid, payload |-> payload, error |-> error ]

\* (variant: jwt.verify is called without the algorithms option and accepts
\* every HMAC algorithm)
verifyActivationTokenAnyAlg(token, secret, now) ==
  IF secret = NoValue
    THEN TokenResult(FALSE, None, "JWT_SECRET not configured")
  ELSE IF token.alg \notin { "HS256", "HS384", "HS512" }
    THEN TokenResult(FALSE, None, "invalid algorithm")
  ELSE IF token.signature # Sign(token.alg, token.payload, secret)
    THEN TokenResult(FALSE, None, "invalid signature")
  ELSE IF token.payload.exp # None /\ now >= token.payload.exp[1]
    THEN TokenResult(FALSE, None, "jwt expired")
  ELSE TokenResult(TRUE, Some(token.payload), NoValue)

\* (variant: a token of a key that has a refunded_licenses row is refused)
verifyActivationTokenRevocationAware(token, secret, now) ==
  IF secret = NoValue
    THEN TokenResult(FALSE, None, "JWT_SECRET not configured")
  ELSE IF token.alg \notin { "HS256" }
    THEN TokenResult(FALSE, None, "invalid algorithm")
  ELSE IF token.signature # Sign(token.alg, token.payload, secret)
    THEN TokenResult(FALSE, None, "invalid signature")
  ELSE IF \E r \in refunded : Some(r.license_key) = token.payload.license_key
    THEN TokenResult(FALSE, None, "revoked")
  ELSE TokenResult(TRUE, Some(token.payload), NoValue)

\* lib/utils/license.ts verifyActivationToken at unix time now (seconds):
\* jwt.verify(token, secret, { algorithms: ['HS256'] }) throws on another
\* algorithm, on a signature that does not match and on an `exp` claim that
\* has passed; the function then tests payload.exp once more
verifyActivationToken(token, secret, now) ==
  IF secret = NoValue
    THEN TokenResult(FALSE, None, "JWT_SECRET not configured")
  ELSE IF token.alg \notin { "HS256" }
    THEN TokenResult(FALSE, None, "invalid algorithm")
  ELSE IF token.signature # Sign(token.alg, token.payload, secret)
    THEN TokenResult(FALSE, None, "invalid signature")
  ELSE IF token.payload.exp # None /\ now >= token.payload.exp[1]
    THEN TokenResult(FALSE, None, "jwt expired")
  ELSE IF token.payload.exp # None /\ token.payload.exp[1] < now
    THEN TokenResult(FALSE, None, "Token expired")
  ELSE TokenResult(TRUE, Some(token.payload), NoValue)

\* ------------------------------------------------------------------- steps
\* outcome of one blocking call on the store or on Payhip
CallOutcomes == { "ok", "throws" }

maxActivations == EnvInt(env.MAX_ACTIVATIONS_PER_LICENSE, DefaultMaxActivations)
\* (OFFLINE_GRACE_PERIOD_DAYS is unset or a numeral in every specification)
offlineGracePeriodDays ==
  EnvInt(env.OFFLINE_GRACE_PERIOD_DAYS, DefaultGracePeriodDays)[1]

\* what `await fetch(payhip)` and `await payhipRes.json()` give
OracleAnswers == { "authentic", "not_authentic", "throws" }

\* (variant: the handler does not look at isSuccess)
OracleLenient(p) ==
  /\ proc[p].pc = "oracle"
  /\ \E answer \in OracleAnswers :
       LET me == [ Called(proc[p]) EXCEPT !.oracle = answer ]
       IN  proc' = [ proc EXCEPT ![p] =
             IF answer = "throws" THEN Thrown(me)
             ELSE [ me EXCEPT !.pc = "refunded" ] ]
  /\ UNCHANGED << env, activations, refunded, clock, snap, calc >>

\* `await fetch(payhip)` and `await payhipRes.json()` return; activate rejects a
\* non-authentic answer with 400 (first handler) or 200 (second), verify with 200
Oracle(p) ==
  /\ proc[p].pc = "oracle"
  /\ \E answer \in OracleAnswers :
       LET me == [ Called(proc[p]) EXCEPT !.oracle = answer ]
       IN  proc' = [ proc EXCEPT ![p] =
             CASE answer = "throws" -> Thrown(me)
               [] answer = "not_authentic" ->
                    Responded(me, Failure(IF me.op = "activate_v1" THEN 400 ELSE 200,
                                          "NOT_AUTHENTIC"))
               [] answer = "authentic" -> [ me EXCEPT !.pc = "refunded" ] ]
  /\ UNCHANGED << env, activations, refunded, clock, snap, calc >>

\* the successful answer of verify (Step 3): when the request carries an
\* activation token that verifies, the answer (and only the answer) carries a
\* refreshed offline expiry
VerifyOk(p) ==
  LET sent == proc[p].body.activation_token
      refreshed ==
        IF sent = None THEN None
        ELSE IF verifyActivationToken(sent[1], env.JWT_SECRET,
                                      clock * SecondsPerDay).valid
          THEN Some(calculateOfflineExpiry(clock, offlineGracePeriodDays))
        ELSE None
  IN  [ NoResponse EXCEPT
        !.status = 200, !.success = TRUE,
        !.license_type =
           getLicenseTypeFromKey(proc[p].cleanKey, proc[p].productIdToUse),
        !.offline_expiry = refreshed ]

\* `await queryOne(SELECT * FROM refunded_licenses ...)` returns, in activate
\* (Check 3.1) and in verify (Check 2.1); verify then answers
CheckRefunded(p) ==
  /\ proc[p].pc = "refunded"
  /\ \E outcome \in CallOutcomes :
       IF outcome = "throws" THEN Throw(p)
       ELSE IF SelectRefunded(refunded, proc[p].cleanKey) # {}
         THEN Respond(p, Failure(IF proc[p].op = "verify" THEN 200 ELSE 403,
                                 "LICENSE_REVOKED"))
       ELSE IF proc[p].op = "verify"
         THEN Respond(p, VerifyOk(p))
       ELSE proc' = [ proc EXCEPT ![p] = [ Called(proc[p]) EXCEPT !.pc = "count" ] ]
  /\ UNCHANGED << env, activations, refunded, clock, snap, calc >>

\* (variant: the comparison is strict)
LimitExceededStrict(op, activeActivations, machineId, max) ==
  IF op = "activate_v1"
  THEN GreaterThan(Cardinality(activeActivations), max)
  ELSE /\ GreaterThan(Cardinality(activeActivations), max)
       /\ machineId \notin { a.machine_id : a \in activeActivations }

\* the device-limit test of the two activate handlers on the rows just read
LimitExceeded(op, activeActivations, machineId, max) ==
  IF op = "activate_v1"
  THEN GreaterOrEqual(Cardinality(activeActivations), max)
  ELSE /\ GreaterOrEqual(Cardinality(activeActivations), max)
       /\ machineId \notin { a.machine_id : a \in activeActivations }

\* `await query(SELECT ... status = 'active')` returns (Check 3.2)
CountActive(p) ==
  /\ proc[p].pc = "count"
  /\ \E outcome \in CallOutcomes :
       LET activeActivations == SelectActive(activations, proc[p].cleanKey)
       IN  IF outcome = "throws" THEN Throw(p)
           ELSE IF LimitExceeded(proc[p].op, activeActivations,
                                 proc[p].body.machineId, maxActivations)
             THEN Respond(p, [ Failure(403, "DEVICE_LIMIT_EXCEEDED") EXCEPT
                                 !.count = Some(Cardinality(activeActivations)),
                                 !.max = maxActivations ])
           ELSE proc' = [ proc EXCEPT ![p] =
                  [ Called(proc[p]) EXCEPT
                      !.pc = "existing",
                      !.activeActivations = activeActivations ] ]
  /\ UNCHANGED << env, activations, refunded, clock, snap, calc >>

\* `await queryOne(SELECT ... machine_id = $2)` returns (Step 4)
FindExisting(p) ==
  /\ proc[p].pc = "existing"
  /\ \E outcome \in CallOutcomes :
       LET rows == SelectActivation(activations, proc[p].cleanKey,
                                    proc[p].body.machineId)
       IN  IF outcome = "throws" THEN Throw(p)
           ELSE proc' = [ proc EXCEPT ![p] =
                  [ Called(proc[p]) EXCEPT
                      !.pc = "write",
                      !.activeActivations = {},
                      !.existingActivation =
                         IF rows = {} THEN None
                         ELSE Some((CHOOSE a \in rows : TRUE).id) ] ]
  /\ UNCHANGED << env, activations, refunded, clock, snap, calc >>

\* the successful answer of activate (Step 5)
ActivateOk(p, tick) ==
  [ NoResponse EXCEPT
      !.status = 200, !.success = TRUE,
      !.license_type =
         getLicenseInfoFromKey(proc[p].cleanKey,
                               proc[p].productIdToUse).license_type,
      !.activation_token = Some(
         generateActivationToken(proc[p].cleanKey, proc[p].body.machineId,
                                 proc[p].productIdToUse, offlineGracePeriodDays,
                                 env.JWT_SECRET, clock * SecondsPerDay,
                                 clock * SecondsPerDay + tick)),
      !.offline_expiry =
         Some(calculateOfflineExpiry(clock, offlineGracePeriodDays)) ]

\* `await execute(UPDATE ...)` or the INSERT returns, then Step 5: the token
\* (generateActivationToken throws without JWT_SECRET) and the answer
WriteActivation(p) ==
  /\ proc[p].pc = "write"
  /\ \E outcome \in CallOutcomes :
       LET row == NewActivation(proc[p].rid, proc[p].cleanKey,
                                proc[p].productIdToUse, proc[p].body.machineId,
                                clock,
                                calculateOfflineExpiry(clock, offlineGracePeriodDays))
       IN  IF outcome = "throws"
             THEN Throw(p) /\ UNCHANGED activations
           ELSE IF proc[p].existingActivation = None
                   /\ ~ UniqueMachineLicense(activations, row)
             THEN Respond(p, ServerError) /\ UNCHANGED activations
           ELSE /\ activations' =
                     IF proc[p].existingActivation # None
                     THEN UpdateActivation(activations,
                                           proc[p].existingActivation[1],
                                           clock, offlineGracePeriodDays)
                     ELSE activations \cup { row }
                /\ IF env.JWT_SECRET = NoValue
                   THEN Respond(p, ServerError)
                   ELSE \E tick \in ClockTicks : Respond(p, ActivateOk(p, tick))
  /\ UNCHANGED << env, refunded, clock, snap, calc >>

\* revoke Step 1: `await query(SELECT * FROM refunded_licenses ...)` returns
RevokeCheck(p) ==
  /\ proc[p].pc = "rev_check"
  /\ \E outcome \in CallOutcomes :
       IF outcome = "throws" THEN Throw(p)
       ELSE IF SelectRefunded(refunded, proc[p].cleanKey) # {}
         THEN Respond(p, [ Failure(200, "ALREADY_REVOKED") EXCEPT !.success = FALSE ])
       ELSE proc' = [ proc EXCEPT ![p] =
                        [ Called(proc[p]) EXCEPT !.pc = "rev_insert" ] ]
  /\ UNCHANGED << env, activations, refunded, clock, snap, calc >>

\* revoke Step 2: `await execute(INSERT INTO refunded_licenses ...)` returns
RevokeInsert(p) ==
  /\ proc[p].pc = "rev_insert"
  /\ \E outcome \in CallOutcomes :
       LET row == NewRefund(proc[p].cleanKey, NoValue, proc[p].body.reason, clock)
       IN  IF outcome = "throws"
             THEN Throw(p) /\ UNCHANGED refunded
           ELSE IF ~ UniqueRefundedKey(refunded, row)
             THEN Respond(p, ServerError) /\ UNCHANGED refunded
           ELSE /\ refunded' = refunded \cup { row }
                /\ proc' = [ proc EXCEPT ![p] =
                              [ Called(proc[p]) EXCEPT !.pc = "rev_sweep" ] ]
  /\ UNCHANGED << env, activations, clock, snap, calc >>

\* revoke Step 3: `await execute(UPDATE activations SET status = 'revoked' ...)`
\* returns, then the answer
RevokeSweep(p) ==
  /\ proc[p].pc = "rev_sweep"
  /\ \E outcome \in CallOutcomes :
       IF outcome = "throws"
         THEN Throw(p) /\ UNCHANGED activations
       ELSE /\ activations' = SweepActivations(activations, proc[p].cleanKey, clock)
            /\ Respond(p, [ NoResponse EXCEPT
                 !.status = 200, !.success = TRUE,
                 !.activations_cancelled =
                    Some(SweepCount(activations, proc[p].cleanKey)) ])
  /\ UNCHANGED << env, refunded, clock, snap, calc >>

\* ------------------------------------------------------------ specifications
\* the request bodies a client or the administrator sends
ClientBodies(in) ==
  { [ NoBody EXCEPT !.licenseKey = b[1], !.productId = b[2], !.machineId = b[3] ] :
      b \in (in.keys \X { NoValue } \X in.machines) \cup in.badClient }

AdminBodies(in) ==
  { [ NoBody EXCEPT !.licenseKey = b[1], !.reason = b[2], !.secret = b[3] ] :
      b \in (in.keys \X in.reasons \X { "admin-secret" }) \cup in.badAdmin }

\* req.body.activation_token of a verify request: none, or the token the
\* client was given by the last answer in its slot
HeldTokens(p) == { None, proc[p].res.activation_token }

\* a request arrives in a free slot; under SpecSeq (sequential) only when no
\* other request is running, and the tables are remembered in snap
Receive(p, in, limit, sequential) ==
  /\ proc[p].pc \in { "idle", "done" }
  /\ clock < limit
  /\ \/ \E body \in ClientBodies(in) : ActivateV1Start(p, body)
     \/ \E body \in ClientBodies(in) : ActivateCorsStart(p, body)
     \/ \E body \in ClientBodies(in) : \E token \in HeldTokens(p) :
          VerifyStart(p, [ body EXCEPT !.activation_token = token ])
     \/ \E body \in AdminBodies(in) : RevokeStart(p, body)
  /\ clock' = clock + 1
  /\ snap' = IF sequential
             THEN [ activations |-> activations, refunded |-> refunded ]
             ELSE snap
  /\ UNCHANGED << env, activations, refunded, calc >>

Environment(max, secrets) ==
  { [ PAYHIP_API_KEY |-> "payhip-key", JWT_SECRET |-> j,
      ADMIN_SECRET |-> "admin-secret",
      POSTGRES_URL |-> "postgres://db", DATABASE_URL |-> NoValue,
      MAX_ACTIVATIONS_PER_LICENSE |-> max,
      OFFLINE_GRACE_PERIOD_DAYS |-> <<>> ] : j \in secrets }

InitWith(environment) ==
  /\ env \in environment
  /\ activations = {}
  /\ refunded = {}
  /\ proc = [ p \in Procs |-> Idle ]
  /\ clock = 0
  /\ snap = [ activations |-> {}, refunded |-> {} ]
  /\ calc = NoCalc

\* Spec: NumProcs requests run concurrently and interleave at every await
Init == InitWith(Environment(Numeral(ConcMaxActivations), { "jwt-secret" }))

Next ==
  \E p \in Procs :
    \/ Receive(p, ConcInputs, MaxRequests, FALSE)
    \/ Oracle(p)
    \/ CheckRefunded(p)
    \/ CountActive(p)
    \/ FindExisting(p)
    \/ WriteActivation(p)
    \/ RevokeCheck(p)
    \/ RevokeInsert(p)
    \/ RevokeSweep(p)

Spec == Init /\ [][Next]_vars

\* SpecSeq: one request at a time, the default device cap, four devices
InitSeq == InitWith(Environment(<<>>, { "jwt-secret" }))

NextSeq ==
  \/ Receive(1, SeqInputs, MaxRequestsSeq, TRUE)
  \/ Oracle(1)
  \/ CheckRefunded(1)
  \/ CountActive(1)
  \/ FindExisting(1)
  \/ WriteActivation(1)
  \/ RevokeCheck(1)
  \/ RevokeInsert(1)
  \/ RevokeSweep(1)

SpecSeq == InitSeq /\ [][NextSeq]_vars

\* SpecUnset: SpecSeq on a server started without JWT_SECRET
InitUnset == InitWith(Environment(<<>>, { NoValue }))

SpecUnset == InitUnset /\ [][NextSeq]_vars

\* SpecCap: one request at a time on one key and four devices, on a server
\* whose MAX_ACTIVATIONS_PER_LICENSE is a numeral or another string
CapSettings == { << "2" >>, << "a", "b", "c" >> }
CapInputs ==
  [ keys |-> { KeyUpper1 }, machines |-> { "A", "B", "C", "D" },
    reasons |-> { "REFUND" },
    badClient |-> {}, badAdmin |-> {} ]

InitCap ==
  InitWith(UNION { Environment(max, { "jwt-secret" }) : max \in CapSettings })

NextCap ==
  \/ Receive(1, CapInputs, MaxRequestsSeq, TRUE)
  \/ Oracle(1)
  \/ CheckRefunded(1)
  \/ CountActive(1)
  \/ FindExisting(1)
  \/ WriteActivation(1)
  \/ RevokeCheck(1)
  \/ RevokeInsert(1)
  \/ RevokeSweep(1)

SpecCap == InitCap /\ [][NextCap]_vars

\* SpecAdmin: one request at a time, on servers with and without ADMIN_SECRET
\* and with and without JWT_SECRET; the administrator's requests carry the
\* right secret, a wrong one or none, with and without a reason
AdminInputs ==
  [ keys |-> { KeyUpper1 }, machines |-> { "A" },
    reasons |-> { "REFUND" },
    badClient |-> {},
    badAdmin |-> { << KeyUpper1, "REFUND", "guess" >>,
                   << KeyUpper1, NoValue, "guess" >>,
                   << KeyUpper1, NoValue, "admin-secret" >>,
                   << KeyUpper1, "REFUND", "jwt-secret" >>,
                   << <<>>, "REFUND", NoValue >> } ]

InitAdmin ==
  InitWith({ [ e EXCEPT !.ADMIN_SECRET = a ] :
               e \in Environment(<<>>, { "jwt-secret", NoValue }),
               a \in { "admin-secret", NoValue } })

NextAdmin ==
  \/ Receive(1, AdminInputs, MaxRequestsSeq, TRUE)
  \/ Oracle(1)
  \/ CheckRefunded(1)
  \/ CountActive(1)
  \/ FindExisting(1)
  \/ WriteActivation(1)
  \/ RevokeCheck(1)
  \/ RevokeInsert(1)
  \/ RevokeSweep(1)

SpecAdmin == InitAdmin /\ [][NextAdmin]_vars

\* SpecLive: SpecSeq with fewer requests, where an awaited call may also never
\* settle.  The handlers set no timer on fetch or on a statement (the pool
\* has a connect_timeout only), so nothing takes a request out of "hung".
\* The event loop resumes a handler whose call has settled: weak fairness.
MaxRequestsLive == 2

Waiting == { "oracle", "refunded", "count", "existing", "write",
             "rev_check", "rev_insert", "rev_sweep" }

Hang(p) ==
  /\ proc[p].pc \in Waiting
  /\ proc' = [ proc EXCEPT ![p].pc = "hung" ]
  /\ UNCHANGED << env, activations, refunded, clock, snap, calc >>

NextLive ==
  \/ Receive(1, ConcInputs, MaxRequestsLive, TRUE)
  \/ Oracle(1)
  \/ CheckRefunded(1)
  \/ CountActive(1)
  \/ FindExisting(1)
  \/ WriteActivation(1)
  \/ RevokeCheck(1)
  \/ RevokeInsert(1)
  \/ RevokeSweep(1)
  \/ Hang(1)

SpecLive == InitSeq /\ [][NextLive]_vars /\ WF_vars(NextLive)

\* SpecToken: one activation token is issued, possibly altered on its way,
\* and verified, for every choice of the arguments below
MaxTtlDays == 2        \* expiryDays ranges over 1 .. MaxTtlDays
MaxIssueDay == 1       \* the token is issued on day 0 .. MaxIssueDay

\* what may happen to a token between its issuance and its verification
SignatureForges == { "payload", "signature", "secret", "HS512", "unsigned" }
StripForges == { "strip_license_key", "strip_machine_id", "strip_product_id",
                 "strip_expiry", "strip_iat" }

Strip(payload, kind) ==
  CASE kind = "strip_license_key" -> [ payload EXCEPT !.license_key = None ]
    [] kind = "strip_machine_id" -> [ payload EXCEPT !.machine_id = None ]
    [] kind = "strip_product_id" -> [ payload EXCEPT !.product_id = None ]
    [] kind = "strip_expiry" -> [ payload EXCEPT !.expiry = None ]
    [] kind = "strip_iat" -> [ payload EXCEPT !.iat = None ]

\* the token that reaches verifyActivationToken:
\*   payload    a claim altered, the signature kept
\*   signature  the signature altered, the payload kept
\*   secret     a claim altered and the token signed anew with another secret
\*   HS512      signed with the server secret under HS512
\*   unsigned   algorithm "none", no signature
\*   strip_x    claim x missing, signed with the server secret under HS256
Forge(kind, token, secret) ==
  LET altered == [ token.payload EXCEPT !.machine_id = Some("X") ]
  IN  CASE kind = "payload" -> [ token EXCEPT !.payload = altered ]
        [] kind = "signature" ->
             [ token EXCEPT !.signature = Sign(token.alg, token.payload, "flipped") ]
        [] kind = "secret" ->
             [ alg |-> "HS256", payload |-> altered,
               signature |-> Sign("HS256", altered, "another-secret") ]
        [] kind = "HS512" ->
             [ alg |-> "HS512", payload |-> token.payload,
               signature |-> Sign("HS512", token.payload, secret) ]
        [] kind = "unsigned" ->
             [ alg |-> "none", payload |-> altered,
               signature |-> Sign("none", altered, NoValue) ]
        [] kind \in StripForges ->
             [ alg |-> "HS256", payload |-> Strip(token.payload, kind),
               signature |-> Sign("HS256", Strip(token.payload, kind), secret) ]

\* seconds between issuance and verification: at once, just before the
\* expiry, at the expiry, just after it
Elapsed(expiryDays) ==
  { 0, expiryDays * SecondsPerDay - 1, expiryDays * SecondsPerDay,
    expiryDays * SecondsPerDay + 1 }

TokenCalcs ==
  { [ fn |-> "token", stage |-> "drawn",
      licenseKey |-> k, machineId |-> d, productId |-> pr,
      expiryDays |-> ttl, issuedAt |-> t0, tick |-> dt, forge |-> f,
      elapsed |-> e, token |-> None, result |-> None ] :
      k \in { KeyUpper1, KeyLower1 }, d \in { "A", "B" },
      pr \in { "photobatchpro", "smartcut-pro" },
      ttl \in 1 .. MaxTtlDays, t0 \in 0 .. MaxIssueDay, dt \in ClockTicks,
      f \in { "no" } \cup SignatureForges \cup StripForges,
      e \in UNION { Elapsed(n) : n \in 1 .. MaxTtlDays } }

Quiet == UNCHANGED << env, activations, refunded, proc, clock, snap >>

\* generateActivationToken(licenseKey, machineId, productId, expiryDays)
IssueToken ==
  /\ calc.fn = "token" /\ calc.stage = "drawn"
  /\ calc' = [ calc EXCEPT
        !.stage = "issued",
        !.token = Some(generateActivationToken(calc.licenseKey, calc.machineId,
                          calc.productId, calc.expiryDays, env.JWT_SECRET,
                          calc.issuedAt * SecondsPerDay,
                          calc.issuedAt * SecondsPerDay + calc.tick)) ]
  /\ Quiet

\* the token is altered on its way back to the server
ForgeToken ==
  /\ calc.fn = "token" /\ calc.stage = "issued" /\ calc.forge # "no"
  /\ calc' = [ calc EXCEPT
        !.stage = "forged",
        !.token = Some(Forge(calc.forge, calc.token[1], env.JWT_SECRET)) ]
  /\ Quiet

\* Date.now() / 1000 when the token is verified
VerifiedAt == calc.issuedAt * SecondsPerDay + calc.elapsed

\* verifyActivationToken(token)
CheckToken ==
  /\ calc.fn = "token"
  /\ \/ calc.stage = "forged"
     \/ calc.stage = "issued" /\ calc.forge = "no"
  /\ calc' = [ calc EXCEPT
        !.stage = "verified",
        !.result = Some(verifyActivationToken(calc.token[1], env.JWT_SECRET,
                                              VerifiedAt)) ]
  /\ Quiet

InitToken ==
  /\ env \in Environment(<<>>, { "jwt-secret" })
  /\ activations = {}
  /\ refunded = {}
  /\ proc = [ p \in Procs |-> Idle ]
  /\ clock = 0
  /\ snap = [ activations |-> {}, refunded |-> {} ]
  /\ calc \in TokenCalcs

NextToken == IssueToken \/ ForgeToken \/ CheckToken

SpecToken == InitToken /\ [][NextToken]_vars

\* SpecTier: the license type of one key is resolved, for every key made of
\* at most MaxSegments of the segments below and every product
MaxSegments == 3

Segments ==
  { <<"P","B">>, <<"1","2","3","4","5","6">>, <<"X","Y","Z">>,
    <<"B","O","G","U","S">>, <<"p","r","o">>,
    PRO, ENTERPRISE, LIFETIME, TRIAL }

\* the segments joined with dashes: PREFIX-XXXXXX-TYPE
RECURSIVE Join(_)
Join(segments) ==
  IF Len(segments) = 1 THEN segments[1]
  ELSE segments[1] \o << "-" >> \o Join(Tail(segments))

\* the product ids of config/products.ts, the second key of LICENSE_CONFIG,
\* and an id that is neither
TierProducts == PRODUCTS \cup { "vehiclevaultpro", "unknown" }

TierCalcs ==
  { [ fn |-> "tier", stage |-> "drawn", segments |-> segs,
      licenseKey |-> Join(segs), productId |-> pr, result |-> None,
      info |-> None ] :
      segs \in UNION { [ 1 .. n -> Segments ] : n \in 1 .. MaxSegments },
      pr \in TierProducts }

\* getLicenseTypeFromKey(licenseKey, productId), as verify calls it, and
\* getLicenseInfoFromKey(licenseKey, productId), as activate calls it
ResolveTier ==
  /\ calc.fn = "tier" /\ calc.stage = "drawn"
  /\ calc' = [ calc EXCEPT
        !.stage = "resolved",
        !.result = Some(getLicenseTypeFromKey(calc.licenseKey, calc.productId)),
        !.info = Some(getLicenseInfoFromKey(calc.licenseKey, calc.productId)) ]
  /\ Quiet

InitTier ==
  /\ env \in Environment(<<>>, { "jwt-secret" })
  /\ activations = {}
  /\ refunded = {}
  /\ proc = [ p \in Procs |-> Idle ]
  /\ clock = 0
  /\ snap = [ activations |-> {}, refunded |-> {} ]
  /\ calc \in TierCalcs

NextTier == ResolveTier

SpecTier == InitTier /\ [][NextTier]_vars

\* SpecDb: the module-level handle `sql` of lib/db.ts, used by callers that
\* interleave at the await of closeDatabase.  A handle is a number; `ended`
\* holds the handles whose end() has been called (postgres rejects every
\* later query on such a handle).
MaxHandles == 2

NoHandle == [ sql |-> None, threw |-> FALSE ]

\* process.env.POSTGRES_URL || process.env.DATABASE_URL
connectionString ==
  IF env.POSTGRES_URL # NoValue THEN env.POSTGRES_URL ELSE env.DATABASE_URL

\* getDatabase(): the held handle, a new one when none is held, an error
\* when there is no connection string
getDatabase(p) ==
  /\ calc.fn = "db"
  /\ IF calc.sql # None
       THEN calc' = [ calc EXCEPT !.got[p] = [ sql |-> calc.sql, threw |-> FALSE ] ]
     ELSE IF connectionString = NoValue
       THEN calc' = [ calc EXCEPT !.got[p] = [ sql |-> None, threw |-> TRUE ] ]
     ELSE /\ calc.made < MaxHandles
          /\ calc' = [ calc EXCEPT
                         !.made = @ + 1,
                         !.sql = Some(calc.made + 1),
                         !.got[p] = [ sql |-> Some(calc.made + 1),
                                      threw |-> FALSE ] ]
  /\ Quiet

\* closeDatabase(), up to `await sql.end()`
closeDatabase(p) ==
  /\ calc.fn = "db"
  /\ calc.closing[p] = None
  /\ calc.sql # None
  /\ calc' = [ calc EXCEPT !.ended = @ \cup { calc.sql[1] },
                           !.closing[p] = calc.sql ]
  /\ Quiet

\* closeDatabase(), `await sql.end()` has settled: `sql = null`
closeDatabaseEnd(p) ==
  /\ calc.fn = "db"
  /\ calc.closing[p] # None
  /\ calc' = [ calc EXCEPT !.closing[p] = None, !.sql = None ]
  /\ Quiet

\* isConnected()
isConnected == calc.sql # None

InitDb ==
  /\ env \in { [ e EXCEPT !.POSTGRES_URL = u, !.DATABASE_URL = d ] :
                 e \in Environment(<<>>, { "jwt-secret" }),
                 u \in { "postgres://db", NoValue },
                 d \in { "postgres://other", NoValue } }
  /\ activations = {}
  /\ refunded = {}
  /\ proc = [ p \in Procs |-> Idle ]
  /\ clock = 0
  /\ snap = [ activations |-> {}, refunded |-> {} ]
  /\ calc = [ fn |-> "db", sql |-> None, ended |-> {}, made |-> 0,
              closing |-> [ p \in Procs |-> None ],
              got |-> [ p \in Procs |-> NoHandle ] ]

NextDb ==
  \E p \in Procs :
    \/ getDatabase(p)
    \/ closeDatabase(p)
    \/ closeDatabaseEnd(p)

SpecDb == InitDb /\ [][NextDb]_vars

\* SpecInitDb: the two init-db handlers (the `for` loop of
\* src/pages/api/init-db.ts and the Promise.all of the other copy) on an
\* empty database.  database/schema.sql is a sequence of lines: "--" a
\* comment line, " " a blank one, ";" the semicolon that ends a statement,
\* any other string the SQL text of a statement (or the text that follows
\* the SQL in the file).
CreateActivations == "CREATE TABLE activations"
CreateRefunded == "CREATE TABLE refunded_licenses"
TrailingText == "# License Key Management API Routes"

schemaSQL ==
  << "--", "--", " ", "--", CreateActivations, ";", " ", " ",
     "--", "CREATE INDEX idx_activations_license_key", ";", " ",
     "CREATE INDEX idx_activations_machine_id", ";", " ",
     "CREATE INDEX idx_activations_status", ";", " ",
     "CREATE INDEX idx_activations_product_id", ";", " ",
     "CREATE INDEX idx_activations_offline_expiry", ";", " ", " ",
     "--", CreateRefunded, ";", " ", " ",
     "--", "CREATE INDEX idx_refunded_licenses_key", ";", " ",
     "CREATE INDEX idx_refunded_licenses_email", ";", " ", " ",
     "--", "CREATE VIEW license_stats", ";", " ", " ",
     "--", "COMMENT ON TABLE activations", ";", " ",
     "COMMENT ON TABLE refunded_licenses", ";", " ", " ",
     "COMMENT ON COLUMN activations.machine_id", ";", " ",
     "COMMENT ON COLUMN activations.offline_expiry", ";", " ",
     "COMMENT ON COLUMN activations.status", ";", " ", " ",
     "COMMENT ON COLUMN refunded_licenses.reason", ";", " ", " ",
     TrailingText, " " >>

\* the relations a statement refers to, and the object it leaves behind
Needs(statement) ==
  IF statement \in { "CREATE INDEX idx_activations_license_key",
                     "CREATE INDEX idx_activations_machine_id",
                     "CREATE INDEX idx_activations_status",
                     "CREATE INDEX idx_activations_product_id",
                     "CREATE INDEX idx_activations_offline_expiry",
                     "CREATE VIEW license_stats",
                     "COMMENT ON TABLE activations",
                     "COMMENT ON COLUMN activations.machine_id",
                     "COMMENT ON COLUMN activations.offline_expiry",
                     "COMMENT ON COLUMN activations.status" }
    THEN { "activations" }
  ELSE IF statement \in { "CREATE INDEX idx_refunded_licenses_key",
                          "CREATE INDEX idx_refunded_licenses_email",
                          "COMMENT ON TABLE refunded_licenses",
                          "COMMENT ON COLUMN refunded_licenses.reason" }
    THEN { "refunded_licenses" }
  ELSE {}
Creates(statement) ==
  IF statement = CreateActivations THEN "activations"
  ELSE IF statement = CreateRefunded THEN "refunded_licenses"
  ELSE statement

\* String.prototype.split(';'): the pieces between the semicolons, the one
\* after the last semicolon included
RECURSIVE SplitSemicolon(_, _)
SplitSemicolon(lines, piece) ==
  IF lines = <<>> THEN << piece >>
  ELSE IF Head(lines) = ";" THEN << piece >> \o SplitSemicolon(Tail(lines), <<>>)
  ELSE SplitSemicolon(Tail(lines), Append(piece, Head(lines)))

\* s.length > 0 && !s.startsWith('--')
KeepStatement(s) == s # <<>> /\ Head(s) # "--"

\* .split(';').map(s => s.trim()).filter(...)
Statements(text) ==
  LET pieces == SplitSemicolon(text, <<>>)
  IN  SelectSeq([ i \in DOMAIN pieces |-> Trim(pieces[i]) ], KeepStatement)

\* what PostgreSQL makes of one piece: its comment and blank lines are
\* ignored, the text after the SQL is a syntax error, a statement on a
\* relation that does not exist fails, any other one is applied
SqlOf(piece) == SelectSeq(piece, LAMBDA line : line \notin { "--", " " })
Applies(piece, db) ==
  \A i \in DOMAIN SqlOf(piece) :
    SqlOf(piece)[i] # TrailingText /\ Needs(SqlOf(piece)[i]) \subseteq db
Applied(piece, db) ==
  IF Applies(piece, db)
  THEN db \cup { Creates(SqlOf(piece)[i]) : i \in DOMAIN SqlOf(piece) }
  ELSE db

InitDbRequests ==
  { [ fn |-> "init-db", handler |-> h, secret |-> s, method |-> m,
      stage |-> "arrived", statements |-> <<>>, pending |-> {},
      inOrder |-> TRUE, successCount |-> 0, errors |-> {}, db |-> {},
      status |-> 0, success |-> FALSE, tablesCreated |-> {} ] :
      h \in { "loop", "all" }, s \in { "jwt-secret", "guess", NoValue },
      m \in { "POST", "GET" } }

\* handler, up to the first awaited statement
InitDbStart ==
  /\ calc.fn = "init-db" /\ calc.stage = "arrived"
  /\ calc' =
       IF calc.secret = NoValue \/ calc.secret # env.JWT_SECRET
         THEN [ calc EXCEPT !.stage = "done", !.status = 403 ]
       ELSE IF calc.method # "POST"
         THEN [ calc EXCEPT !.stage = "done", !.status = 405 ]
       ELSE [ calc EXCEPT !.stage = "running",
                          !.statements = Statements(schemaSQL),
                          !.pending = DOMAIN Statements(schemaSQL) ]
  /\ Quiet

\* one `await execute(statement)` settles: the next statement of the loop,
\* any of the statements that Promise.all has in flight (errors holds the
\* positions of the failed statements; inOrder records that no statement has
\* run before one that precedes it in the file)
ExecuteStatement ==
  /\ calc.fn = "init-db" /\ calc.stage = "running"
  /\ \E i \in calc.pending :
       /\ calc.handler = "loop" => \A j \in calc.pending : i <= j
       /\ LET statement == calc.statements[i]
              ok == Applies(statement, calc.db)
          IN  calc' = [ calc EXCEPT
                 !.pending = @ \ { i },
                 !.inOrder = @ /\ \A j \in calc.pending : i <= j,
                 !.db = Applied(statement, calc.db),
                 !.successCount = IF ok THEN @ + 1 ELSE @,
                 !.errors = IF ok THEN @ ELSE @ \cup { i } ]
  /\ Quiet

\* `await query(SELECT table_name FROM information_schema.tables ...)`
\* settles, and the answer
VerifyTables ==
  /\ calc.fn = "init-db" /\ calc.stage = "running"
  /\ calc.pending = {}
  /\ calc' = [ calc EXCEPT
         !.stage = "done", !.status = 200, !.success = TRUE,
         !.tablesCreated = calc.db \cap { "activations", "refunded_licenses" } ]
  /\ Quiet

InitInitDb ==
  /\ env \in Environment(<<>>, { "jwt-secret" })
  /\ activations = {}
  /\ refunded = {}
  /\ proc = [ p \in Procs |-> Idle ]
  /\ clock = 0
  /\ snap = [ activations |-> {}, refunded |-> {} ]
  /\ calc \in InitDbRequests

NextInitDb ==
  \/ InitDbStart
  \/ ExecuteStatement
  \/ VerifyTables

SpecInitDb == InitInitDb /\ [][NextInitDb]_vars

\* ------------------------------------------------------------------ claims
Done(p) == proc[p].pc = "done"

\* the Active rows of a key in a table, and the row of a (key, device) pair
ActiveOf(table, key) ==
  { a \in table : a.license_key = key /\ a.status = "active" }
RowsOf(table, key, machineId) ==
  { a \in table : a.license_key = key /\ a.machine_id = machineId }

\* C1: in every reachable state, for every license key, the number of
\* activation rows with status Active is at most the configured device cap,
\* also when activate requests for distinct devices interleave between the
\* cap-count read and the insert.
C1_ActiveWithinCap ==
  \A a \in activations :
    Cardinality(ActiveOf(activations, a.license_key)) <= maxActivations[1]

\* C2: when a revoke(K) and an activate(K, D) have both finished with
\* success (the revoke committed while the activate was in flight), D's
\* activation row for K is absent or Revoked, never Active.
C2_NotActiveAfterRevoke ==
  \A p, q \in Procs :
    ( /\ Done(p) /\ proc[p].op \in ActivateOps /\ proc[p].res.success
      /\ Done(q) /\ proc[q].op = "revoke" /\ proc[q].res.success
      /\ proc[q].cleanKey = proc[p].cleanKey )
    => \A a \in RowsOf(activations, proc[p].cleanKey, proc[p].body.machineId) :
         a.status = "revoked"

C4_ReactivationNotCapped ==
  \A p \in Procs :
    ( /\ Done(p)
      /\ proc[p].op \in ActivateOps
      /\ \E a \in ActiveOf(snap.activations, proc[p].cleanKey) :
            a.machine_id = proc[p].body.machineId )
    => /\ proc[p].res.error # "DEVICE_LIMIT_EXCEEDED"
       /\ proc[p].res.success =>
            /\ Cardinality(RowsOf(activations, proc[p].cleanKey,
                                  proc[p].body.machineId)) = 1
            /\ Cardinality(activations) = Cardinality(snap.activations)
            /\ Cardinality(ActiveOf(activations, proc[p].cleanKey))
                 = Cardinality(ActiveOf(snap.activations, proc[p].cleanKey))

\* C5 (SpecSeq): an activate for a device without an Active row on a key whose
\* Active count is already >= cap does not succeed and leaves the activations
\* table as it was; unless Payhip rejected the key, the key is revoked or a
\* call threw, it is answered DEVICE_LIMIT_EXCEEDED, and that answer carries
\* the Active count and the cap.
C5_CapRejects ==
  \A p \in Procs :
    ( /\ Done(p)
      /\ proc[p].op \in ActivateOps
      /\ proc[p].cleanKey # <<>>
      /\ \A a \in ActiveOf(snap.activations, proc[p].cleanKey) :
            a.machine_id # proc[p].body.machineId
      /\ Cardinality(ActiveOf(snap.activations, proc[p].cleanKey))
           >= maxActivations[1] )
    => /\ ~ proc[p].res.success
       /\ activations = snap.activations
       /\ \/ proc[p].res.error = "NOT_AUTHENTIC"
          \/ proc[p].infra
          \/ /\ proc[p].res.error = "LICENSE_REVOKED"
             /\ \E r \in snap.refunded : r.license_key = proc[p].cleanKey
          \/ /\ proc[p].res.error = "DEVICE_LIMIT_EXCEEDED"
             /\ proc[p].res.status = 403
             /\ proc[p].res.count =
                  Some(Cardinality(ActiveOf(snap.activations, proc[p].cleanKey)))
             /\ proc[p].res.max = maxActivations

\* C5 witness: with A, B and C active under the default cap, the activate of
\* device D has been answered DEVICE_LIMIT_EXCEEDED with count 3 and cap 3.
C5_Witness ==
  \E p \in Procs :
    /\ Done(p) /\ proc[p].op \in ActivateOps
    /\ proc[p].body.machineId = "D"
    /\ { a.machine_id : a \in ActiveOf(snap.activations, proc[p].cleanKey) }
         = { "A", "B", "C" }
    /\ proc[p].res.error = "DEVICE_LIMIT_EXCEEDED"
    /\ proc[p].res.count = Some(3) /\ proc[p].res.max = Some(3)

\* C6 (SpecSeq): a successful revoke(K) on a key without a RevocationRecord
\* creates exactly one record for K and no other, turns every activation of
\* K that was Active into Revoked, leaves the status of every other row as
\* it was, adds and removes no row, and returns the number of rows it
\* turned.
C6_RevokeCascades ==
  \A p \in Procs :
    ( Done(p) /\ proc[p].op = "revoke" /\ proc[p].res.success )
    => LET K == proc[p].cleanKey
       IN  /\ { r \in snap.refunded : r.license_key = K } = {}
           /\ Cardinality({ r \in refunded : r.license_key = K }) = 1
           /\ { r \in refunded : r.license_key # K } = snap.refunded
           /\ { a.id : a \in activations } = { a.id : a \in snap.activations }
           /\ Cardinality(activations) = Cardinality(snap.activations)
           /\ \A a \in snap.activations : \E b \in activations :
                 /\ b.id = a.id
                 /\ b.license_key = a.license_key /\ b.machine_id = a.machine_id
                 /\ b.status = IF a.license_key = K /\ a.status = "active"
                               THEN "revoked" ELSE a.status
           /\ proc[p].res.activations_cancelled =
                Some(Cardinality(ActiveOf(snap.activations, K)))

\* C6 witness: a revoke has cascaded over two Active rows of its key while
\* a row of another key stayed Active.
C6_Witness ==
  \E p \in Procs :
    /\ Done(p) /\ proc[p].op = "revoke" /\ proc[p].res.success
    /\ proc[p].res.activations_cancelled = Some(2)
    /\ \E a \in activations :
         a.license_key # proc[p].cleanKey /\ a.status = "active"

\* C7 (SpecSeq): the record insert and the sweep of revoke are one atomic
\* unit: whenever no revoke of K is mid-execution, a RevocationRecord for K
\* implies that no activation of K is Active, also when the store fails
\* between the insert and the sweep.
C7_RevokeAtomic ==
  \A r \in refunded :
    ( \A p \in Procs :
        ~ ( proc[p].op = "revoke" /\ proc[p].cleanKey = r.license_key
            /\ proc[p].pc \in { "rev_check", "rev_insert", "rev_sweep" } ) )
    => ActiveOf(activations, r.license_key) = {}

\* C8 (SpecSeq): a revoke(K) that arrives when a RevocationRecord for K
\* exists changes neither table (no second record, the record's reason and
\* timestamp as they were, no activation row touched) and, unless it is
\* unauthorized or malformed or a call threw, is answered 200 'already
\* revoked', not with a server error.
C8_RevokeIdempotent ==
  \A p \in Procs :
    ( /\ Done(p)
      /\ proc[p].op = "revoke"
      /\ \E r \in snap.refunded :
            r.license_key = ToUpperCase(Trim(proc[p].body.licenseKey)) )
    => /\ refunded = snap.refunded
       /\ activations = snap.activations
       /\ \/ proc[p].res.error \in { "UNAUTHORIZED", "INPUT_INVALID" }
          \/ proc[p].infra
          \/ /\ proc[p].res.error = "ALREADY_REVOKED"
             /\ proc[p].res.status = 200

\* C8 witness: a second revoke of a revoked key, sent with another reason,
\* has been answered 'already revoked'.
C8_Witness ==
  \E p \in Procs :
    /\ Done(p) /\ proc[p].op = "revoke"
    /\ proc[p].res.error = "ALREADY_REVOKED"
    /\ \E r \in refunded :
         r.license_key = proc[p].cleanKey /\ r.reason # proc[p].body.reason

\* C9: no step moves an activation row out of status Revoked, also when an
\* activate interleaves with a revoke of the same key.
C9_RevokedStaysRevoked ==
  [][ \A a \in activations : \A b \in activations' :
        (a.status = "revoked" /\ b.id = a.id) => b.status = "revoked" ]_vars

\* C10: verify answers valid only for a (key, device) pair that has an
\* activation row which is not Revoked: a pair without a row gets
\* NotActivated, a pair with a Revoked row gets Revoked.
C10_VerifyNeedsActivation ==
  \A p \in Procs :
    ( Done(p) /\ proc[p].op = "verify" /\ proc[p].res.success )
    => \E a \in RowsOf(activations, proc[p].cleanKey, proc[p].body.machineId) :
         a.status # "revoked"

\* C11 (SpecSeq): a successful verify of a (key, device) pair whose
\* activation is Active rolls the stored offline_expiry of that row forward
\* to now + grace period and sets its last_verified_at to now: after the
\* verify at time t the row's offline_expiry is >= t + grace period.
C11_VerifyRollsExpiry ==
  \A p \in Procs :
    ( /\ Done(p)
      /\ proc[p].op = "verify"
      /\ proc[p].res.success
      /\ \E a \in ActiveOf(snap.activations, proc[p].cleanKey) :
            a.machine_id = proc[p].body.machineId )
    => \A a \in RowsOf(activations, proc[p].cleanKey, proc[p].body.machineId) :
         /\ a.offline_expiry >= clock + offlineGracePeriodDays
         /\ a.last_verified_at = Some(clock)

\* the token under verification carries a signature made with the server
\* secret under HS256 over the payload it carries
Verified == calc.fn = "token" /\ calc.stage = "verified"
CorrectlySigned ==
  /\ calc.token[1].alg = "HS256"
  /\ calc.token[1].signature
       = Sign("HS256", calc.token[1].payload, env.JWT_SECRET)

\* C12 (SpecToken): a token issued by generateActivationToken(k, d, p, ttl)
\* and verified unaltered before its expiry under the same secret is valid,
\* and its payload carries license_key = k, machine_id = d, product_id = p.
C12_TokenRoundTrip ==
  ( Verified /\ calc.forge = "no"
    /\ calc.elapsed < calc.expiryDays * SecondsPerDay )
  => /\ calc.result[1].valid
     /\ calc.result[1].payload # None
     /\ calc.result[1].payload[1].license_key = Some(calc.licenseKey)
     /\ calc.result[1].payload[1].machine_id = Some(calc.machineId)
     /\ calc.result[1].payload[1].product_id = Some(calc.productId)

\* C12 witness: a token for a lower-case key has been verified one second
\* before its expiry and found valid.
C12_Witness ==
  /\ Verified /\ calc.forge = "no"
  /\ calc.licenseKey = KeyLower1
  /\ calc.elapsed = calc.expiryDays * SecondsPerDay - 1
  /\ calc.result[1].valid

\* C13 (SpecToken): a correctly signed token whose expiry field is <= now is
\* rejected with a token-expired error.
C13_ExpiredTokenRejected ==
  ( /\ Verified
    /\ CorrectlySigned
    /\ calc.token[1].payload.expiry # None
    /\ calc.token[1].payload.expiry[1] <= VerifiedAt )
  => /\ ~ calc.result[1].valid
     /\ calc.result[1].error \in { "Token expired", "jwt expired" }

\* C14 (SpecToken): a token whose payload or signature was altered after
\* issuance, that was signed with another secret, or that is signed with an
\* algorithm other than HS256 (HS512 under the server secret, or unsigned)
\* is never found valid.
C14_ForgedTokenInvalid ==
  ( Verified /\ calc.forge \in SignatureForges )
  => /\ ~ calc.result[1].valid
     /\ calc.result[1].payload = None

\* C14 witness: a token signed with the server secret under HS512 has been
\* rejected for its algorithm.
C14_Witness ==
  /\ Verified /\ calc.forge = "HS512"
  /\ calc.token[1].signature
       = Sign("HS512", calc.token[1].payload, env.JWT_SECRET)
  /\ calc.result[1].error = "invalid algorithm"

\* C15 (SpecToken): a correctly signed token that lacks one of license_key,
\* machine_id, product_id, iat or expiry is rejected as malformed.
C15_IncompleteTokenMalformed ==
  ( /\ Verified
    /\ CorrectlySigned
    /\ \/ calc.token[1].payload.license_key = None
       \/ calc.token[1].payload.machine_id = None
       \/ calc.token[1].payload.product_id = None
       \/ calc.token[1].payload.iat = None
       \/ calc.token[1].payload.expiry = None )
  => /\ ~ calc.result[1].valid
     /\ calc.result[1].error = "malformed"

Resolved == calc.fn = "tier" /\ calc.stage = "resolved"

\* the types configured for a product
ConfiguredTypes(productId) ==
  IF LICENSE_CONFIG(productId) = None THEN {} ELSE LICENSE_CONFIG(productId)[1]

\* C16 (SpecTier): for a key of at least 3 dash-separated segments the
\* resolver returns the upper-cased final segment when that is a type
\* configured for the product, and PERSONAL otherwise; it returns a value
\* for every key and product, and the value depends on key and product only.
C16_TierFromFinalSegment ==
  ( Resolved /\ Len(calc.segments) >= 3 )
  => LET final == ToUpperCase(calc.segments[Len(calc.segments)])
     IN  /\ calc.result # None
         /\ calc.result[1] = IF final \in ConfiguredTypes(calc.productId)
                             THEN final ELSE PERSONAL

\* C16 witness: PB-123456-pro on photobatchpro has been resolved to PRO.
C16_Witness ==
  /\ Resolved
  /\ calc.segments = << <<"P","B">>, <<"1","2","3","4","5","6">>, <<"p","r","o">> >>
  /\ calc.productId = "photobatchpro"
  /\ calc.result = Some(PRO)

\* C17 (SpecTier): every key that begins with TRIAL- resolves to TRIAL, for
\* every product, whatever its number of segments and its final segment.
C17_TrialPrefixForcesTrial ==
  ( Resolved /\ Len(calc.segments) >= 2 /\ calc.segments[1] = TRIAL )
  => calc.result = Some(TRIAL)

\* C18 (SpecTier): every key of fewer than 3 dash-separated segments
\* resolves to TRIAL, for every product.
C18_ShortKeyIsTrial ==
  ( Resolved /\ Len(calc.segments) < 3 )
  => calc.result = Some(TRIAL)

\* C19 (SpecSeq): when Payhip answers non-authentic or the call on it fails,
\* the activate or verify request ends there without success: no call on the
\* store was made, both tables are as they were, the answer carries no token
\* and no offline expiry; and no request calls Payhip more than once.
C19_OracleRejectionIsFinal ==
  \A p \in Procs :
    /\ proc[p].oracleCalls <= 1
    /\ ( /\ proc[p].op \in ActivateOps \cup { "verify" }
         /\ proc[p].oracle \in { "not_authentic", "throws" } )
       => /\ Done(p)
          /\ ~ proc[p].res.success
          /\ proc[p].res.error = IF proc[p].oracle = "throws"
                                 THEN "SERVER_ERROR" ELSE "NOT_AUTHENTIC"
          /\ proc[p].res.activation_token = None
          /\ proc[p].res.offline_expiry = None
          /\ proc[p].storeCalls = 0
          /\ activations = snap.activations
          /\ refunded = snap.refunded

\* C19 witness: an activate for a key that is revoked and has a Revoked row
\* has been rejected for Payhip's answer, not for the revocation.
C19_Witness ==
  \E p \in Procs :
    /\ Done(p) /\ proc[p].op \in ActivateOps
    /\ proc[p].oracle = "not_authentic"
    /\ proc[p].res.error = "NOT_AUTHENTIC"
    /\ proc[p].revokedAtStart
    /\ \E a \in activations :
         a.license_key = proc[p].cleanKey /\ a.status = "revoked"

\* C20 (SpecUnset): an activate call that ends without success, in
\* particular one that fails at token issuance because JWT_SECRET is unset,
\* leaves the activations table as it was before the call: a row is
\* committed only by a request that returns success with a token.
C20_FailedActivateWritesNothing ==
  \A p \in Procs :
    ( Done(p) /\ proc[p].op \in ActivateOps /\ ~ proc[p].res.success )
    => activations = snap.activations

\* C21: in every reachable state, also after concurrent first-time
\* activations of one (key, device) pair, the activations table holds at
\* most one row per (license_key, machine_id), and after a successful
\* activate the pair has exactly one row.
C21_OneRowPerPair ==
  /\ \A a, b \in activations :
        (a.license_key = b.license_key /\ a.machine_id = b.machine_id) => a = b
  /\ \A p \in Procs :
        ( Done(p) /\ proc[p].op \in ActivateOps /\ proc[p].res.success )
        => Cardinality(RowsOf(activations, proc[p].cleanKey,
                              proc[p].body.machineId)) = 1

\* C21 witness: of two concurrent first-time activations of one pair, one
\* has inserted the row and the other's INSERT has been refused by the
\* unique constraint.
C21_Witness ==
  \E p, q \in Procs :
    /\ p # q
    /\ Done(p) /\ proc[p].op \in ActivateOps /\ proc[p].res.success
    /\ Done(q) /\ proc[q].op \in ActivateOps
    /\ proc[q].cleanKey = proc[p].cleanKey
    /\ proc[q].body.machineId = proc[p].body.machineId
    /\ proc[q].existingActivation = None /\ proc[q].storeCalls = 4
    /\ proc[q].res.error = "SERVER_ERROR" /\ ~ proc[q].infra
    /\ \E a \in activations : a.id = proc[p].rid

\* C22: the ledger is append-only: no step of an activate, verify or revoke
\* removes an activation row (the row with its id, key and device is there
\* after the step), and no step removes a RevocationRecord or changes its
\* reason or timestamp.
C22_AppendOnly ==
  [][ /\ \A a \in activations : \E b \in activations' :
             /\ b.id = a.id
             /\ b.license_key = a.license_key
             /\ b.machine_id = a.machine_id
             /\ b.activated_at = a.activated_at
      /\ \A r \in refunded : r \in refunded' ]_vars

\* C22 witness: a row activated on day 1 and its key's RevocationRecord of
\* day 2 are both there on day 3, the row Revoked.
C22_Witness ==
  /\ clock = 3
  /\ \E a \in activations : \E r \in refunded :
       /\ a.activated_at = 1 /\ a.status = "revoked"
       /\ r.license_key = a.license_key /\ r.refunded_at = 2

\* C23 (SpecLive): every request that has been received is eventually
\* answered, also when the call it waits for never settles.
C23_EveryRequestAnswered ==
  (proc[1].pc \notin { "idle", "done" }) ~> (proc[1].pc = "done")

\* C24 (SpecSeq): on the activate path the steps occur in the order oracle
\* check, revocation check, cap check, ledger write, token issuance.  A
\* request arrives either rejected or waiting for Payhip, having called
\* neither Payhip nor the store; it reaches the revocation check only from an
\* authentic answer, the cap check only when no RevocationRecord exists for
\* its key, the row lookup only when the cap test passes, the write only
\* from the lookup; the activations table changes and a token is issued only
\* in the write step, the token after the row is there; an input-invalid
\* request has called neither Payhip nor the store.
C24_ActivateStepOrder ==
  [][ \A p \in Procs :
        LET before == proc[p]
            after == proc'[p]
            capPassed ==
              \/ Cardinality(ActiveOf(activations, before.cleanKey)) < maxActivations[1]
              \/ /\ before.op = "activate_cors"
                 /\ \E a \in ActiveOf(activations, before.cleanKey) :
                       a.machine_id = before.body.machineId
        IN  ( after # before /\ after.op \in ActivateOps )
            => /\ after.res.error = "INPUT_INVALID"
                    => after.oracleCalls = 0 /\ after.storeCalls = 0
               /\ after.rid # before.rid
                    => /\ after.pc \in { "oracle", "done" }
                       /\ after.oracleCalls = 0 /\ after.storeCalls = 0
                       /\ after.res.activation_token = None
                       /\ activations' = activations
               /\ after.rid = before.rid
                    => /\ after.pc = "refunded"
                            => before.pc = "oracle" /\ after.oracle = "authentic"
                       /\ after.pc = "count"
                            => /\ before.pc = "refunded"
                               /\ \A r \in refunded : r.license_key # before.cleanKey
                       /\ after.pc = "existing"
                            => before.pc = "count" /\ capPassed
                       /\ after.pc = "write" => before.pc = "existing"
                       /\ activations' # activations => before.pc = "write"
                       /\ after.res.activation_token # None
                            => /\ before.pc = "write"
                               /\ \E a \in activations' :
                                     /\ a.license_key = before.cleanKey
                                     /\ a.machine_id = before.body.machineId
                                     /\ a.status = "active" ]_vars

\* C24 witness: an activate has gone through all five steps: an authentic
\* answer, four store calls, its row inserted, its token issued.
C24_Witness ==
  \E p \in Procs :
    /\ Done(p) /\ proc[p].op \in ActivateOps /\ proc[p].res.success
    /\ proc[p].oracle = "authentic" /\ proc[p].oracleCalls = 1
    /\ proc[p].storeCalls = 4
    /\ proc[p].res.activation_token # None
    /\ \E a \in activations : a.id = proc[p].rid /\ a.status = "active"

\* C25 (SpecSeq, nothing configured): the device cap is 3 and the grace
\* period 30 days: no key has more than 3 Active rows, an activate for a
\* further device is answered with max = 3, a row that has not been
\* re-activated expires 30 days after its activation, and a successful
\* activate reports an offline expiry 30 days ahead.
C25_DefaultCapAndGrace ==
  /\ env.MAX_ACTIVATIONS_PER_LICENSE = <<>>
  /\ env.OFFLINE_GRACE_PERIOD_DAYS = <<>>
  /\ \A a \in activations :
        /\ Cardinality(ActiveOf(activations, a.license_key)) <= 3
        /\ a.last_verified_at = None => a.offline_expiry = a.activated_at + 30
        /\ a.last_verified_at # None /\ a.status = "active"
             => a.offline_expiry = a.last_verified_at[1] + 30
  /\ \A p \in Procs :
        ( Done(p) /\ proc[p].op \in ActivateOps )
        => /\ proc[p].res.success
                => proc[p].res.offline_expiry = Some(clock + 30)
           /\ proc[p].res.error = "DEVICE_LIMIT_EXCEEDED"
                => proc[p].res.max = Some(3) /\ proc[p].res.count = Some(3)

\* C25 witness: the 4th device of a key has been rejected while the rows of
\* the first three, activated on days 1, 2 and 3, expire on days 31, 32, 33.
C25_Witness ==
  \E p \in Procs :
    /\ Done(p) /\ proc[p].op \in ActivateOps
    /\ proc[p].res.error = "DEVICE_LIMIT_EXCEEDED"
    /\ clock = 4
    /\ { << a.activated_at, a.offline_expiry >> :
           a \in ActiveOf(activations, proc[p].cleanKey) }
         = { << 1, 31 >>, << 2, 32 >>, << 3, 33 >> }

\* C27 (SpecToken): every issued token has expiry = iat + expiryDays * 86400
\* exactly, also when the clock advances between the two reads of Date.now().
C27_ExpiryIsIatPlusTtl ==
  ( calc.fn = "token" /\ calc.stage = "issued" )
  => calc.token[1].payload.expiry[1]
       = calc.token[1].payload.iat[1] + calc.expiryDays * SecondsPerDay

\* C26: the result of verifyActivationToken depends on the token, the
\* secret and the time only: a token that an activate has issued verifies
\* as valid, with its payload, whatever the tables hold, in particular
\* after its key has been revoked and its activation row turned Revoked.
C26_TokenOutlivesRevocation ==
  \A p \in Procs :
    ( Done(p) /\ proc[p].res.activation_token # None )
    => LET result == verifyActivationToken(proc[p].res.activation_token[1],
                                           env.JWT_SECRET, clock * SecondsPerDay)
       IN  /\ result.valid
           /\ result.payload = Some(proc[p].res.activation_token[1].payload)

\* C26 witness: the key of an issued token has been revoked by a later
\* request, the device's row is Revoked, and the token still verifies.
C26_Witness ==
  \E p, q \in Procs :
    /\ Done(p) /\ proc[p].res.activation_token # None
    /\ Done(q) /\ proc[q].op = "revoke" /\ proc[q].res.success
    /\ proc[q].rid > proc[p].rid
    /\ proc[q].cleanKey = proc[p].cleanKey
    /\ \A a \in RowsOf(activations, proc[p].cleanKey, proc[p].body.machineId) :
         a.status = "revoked"
    /\ verifyActivationToken(proc[p].res.activation_token[1], env.JWT_SECRET,
                             clock * SecondsPerDay).valid

\* C28 (SpecSeq): keys are normalised alike by revoke, activate and verify:
\* once a RevocationRecord exists for the upper-cased form of a key, no
\* activate and no verify that arrives with a letter-case variant of the key
\* succeeds.
C28_CaseVariantsVetoed ==
  \A p \in Procs :
    ( /\ Done(p)
      /\ proc[p].op \in ActivateOps \cup { "verify" }
      /\ \E r \in snap.refunded :
            r.license_key = ToUpperCase(Trim(proc[p].body.licenseKey)) )
    => ~ proc[p].res.success

\* C29: a revoke that is authorized and well-formed, and none of whose
\* calls threw, either succeeds or is answered 'already revoked', also when
\* another revoke of the same key runs at the same time; and no key has two
\* RevocationRecords.
C29_ConcurrentRevokeNoError ==
  /\ \A r, s \in refunded : r.license_key = s.license_key => r = s
  /\ \A p \in Procs :
        ( /\ Done(p)
          /\ proc[p].op = "revoke"
          /\ ~ proc[p].infra
          /\ proc[p].res.error \notin { "UNAUTHORIZED", "INPUT_INVALID" } )
        => \/ proc[p].res.success
           \/ proc[p].res.error = "ALREADY_REVOKED"

\* C30 (SpecTier): for every key that passes the format validation and
\* every product of PRODUCTS, the license type activate reports
\* (getLicenseInfoFromKey) equals the one verify reports
\* (getLicenseTypeFromKey).
C30_ActivateAndVerifyAgreeOnTier ==
  ( /\ Resolved
    /\ isValidLicenseKeyFormat(calc.licenseKey)
    /\ calc.productId \in PRODUCTS )
  => calc.info[1].license_type = calc.result[1]

\* C31 (SpecSeq): verify answers with a refreshed offline expiry only when
\* the request carries a token that is valid and was issued for the key
\* (compared without regard to letter case), the product and the device of
\* the request.
C31_RefreshOnlyForOwnToken ==
  \A p \in Procs :
    ( Done(p) /\ proc[p].op = "verify" /\ proc[p].res.offline_expiry # None )
    => /\ proc[p].body.activation_token # None
       /\ LET token == proc[p].body.activation_token[1]
              payload == token.payload
          IN  /\ verifyActivationToken(token, env.JWT_SECRET,
                                       clock * SecondsPerDay).valid
              /\ payload.license_key # None
              /\ ToUpperCase(payload.license_key[1]) = ToUpperCase(proc[p].cleanKey)
              /\ payload.product_id = Some(proc[p].productIdToUse)
              /\ payload.machine_id = Some(proc[p].body.machineId)

\* C32 (SpecCap): whatever the MAX_ACTIVATIONS_PER_LICENSE setting, a numeral
\* or any other string, activate enforces a device cap: in sequential runs
\* the Active rows of a key stay fewer than the devices that ask, however
\* many activations succeed.
C32_SomeFiniteCap ==
  \A a \in activations :
    Cardinality(ActiveOf(activations, a.license_key))
      < Cardinality(CapInputs.machines)

\* the secret of a revoke request is the one the server requires
CorrectSecret(body) ==
  /\ body.secret # NoValue
  /\ IF env.ADMIN_SECRET # NoValue THEN body.secret = env.ADMIN_SECRET
     ELSE env.JWT_SECRET # NoValue /\ body.secret = env.JWT_SECRET

\* C33 (SpecAdmin): a revoke request without the correct admin secret is
\* answered 401 unauthorized, whatever else is wrong with it, without a call
\* to the store, and both tables are as they were when it arrived; on a
\* server with neither ADMIN_SECRET nor JWT_SECRET every revoke request is
\* answered so.
C33_RevokeNeedsSecret ==
  \A p \in Procs :
    ( /\ Done(p)
      /\ proc[p].op = "revoke"
      /\ \/ ~ CorrectSecret(proc[p].body)
         \/ env.ADMIN_SECRET = NoValue /\ env.JWT_SECRET = NoValue )
    => /\ proc[p].res.status = 401
       /\ proc[p].res.error = "UNAUTHORIZED"
       /\ ~ proc[p].res.success
       /\ proc[p].storeCalls = 0
       /\ activations = snap.activations
       /\ refunded = snap.refunded

\* C33 witness: on a server with neither secret, where a row is Active, a
\* revoke request that carries "admin-secret" and no reason has been answered
\* 401 and the row is still Active.
C33_Witness ==
  \E p \in Procs :
    /\ env.ADMIN_SECRET = NoValue
    /\ env.JWT_SECRET = NoValue
    /\ Done(p)
    /\ proc[p].op = "revoke"
    /\ proc[p].body.secret = "admin-secret"
    /\ proc[p].body.reason = NoValue
    /\ proc[p].res.status = 401
    /\ ActiveOf(activations, KeyUpper1) # {}
    /\ refunded = {}

\* C34 (SpecDb): the store handle is a singleton with a consistent lifecycle:
\* a step of getDatabase leaves a held handle in place and returns it, and
\* creates one only when none is held; without a connection string none is
\* ever held; and isConnected() is true exactly when a handle is held whose
\* end has not been called, also while closeDatabase awaits the end.
C34_HandleLifecycle ==
  /\ []( /\ connectionString = NoValue => calc.sql = None
         /\ isConnected <=> ( calc.sql # None /\ calc.sql[1] \notin calc.ended ) )
  /\ [][ /\ calc.made' # calc.made => calc.sql = None
         /\ \A p \in Procs :
              calc.got'[p] # calc.got[p]
              => /\ calc.sql # None => calc.sql' = calc.sql
                 /\ calc.got'[p].sql = calc.sql' ]_vars

\* the pieces of the schema file that hold more than comments, in file order
SqlStatements ==
  LET pieces == SplitSemicolon(schemaSQL, <<>>)
  IN  SelectSeq([ i \in DOMAIN pieces |-> Trim(pieces[i]) ],
                LAMBDA piece : SqlOf(piece) # <<>>)

\* C35 (SpecInitDb): when an authorized POST to init-db on an empty database
\* has been answered, every statement of the schema file that holds more
\* than comments has been executed, in file order, and the tables
\* activations and refunded_licenses both exist.
C35_SchemaApplied ==
  ( calc.fn = "init-db" /\ calc.stage = "done" /\ calc.status = 200 )
  => /\ calc.statements = SqlStatements
     /\ calc.pending = {}
     /\ calc.inOrder
     /\ { "activations", "refunded_licenses" } \subseteq calc.db

====
